---- MODULE Spec2Model ----
(***************************************************************************)
(* A model of the SMuFL font facade (scripts/ffsmufl.py), of its build     *)
(* driver (scripts/build.py) and of the stand-alone metadata module        *)
(* (scripts/ff_smufl_metadata.py).                                         *)
(*                                                                         *)
(* Python values are tagged records [type, val]; a Python dict is a        *)
(* function, a tuple or list is a sequence.  An operation's outcome is a   *)
(* record [exc, val] where exc is "none" or the raised exception's type.   *)
(* Coordinates are integers counting tenths of a font unit, staff spaces   *)
(* are integers counting thousandths of a space.                           *)
(***************************************************************************)
EXTENDS Integers, Sequences, FiniteSets, TLC

VARIABLES
    program,            \* which module the process runs
    pc,                 \* position of the process
    candidates,         \* glyphnames.json candidates not yet tried
    codepoint_to_name,  \* the reference table, once loaded
    stdout,             \* lines printed so far
    exit_status,        \* -1 while the process runs
    font,               \* the fontforge font: fontname, version, glyphs
    handle,             \* "unopened", "open" or "closed"
    close_calls,        \* number of fontforge close() calls on the handle
    mode,               \* the mode the constructor was called with
    read_only,          \* SmuflFont.read_only
    engraving_defaults, \* SmuflFont._engraving_defaults
    result              \* outcome of the last operation

vars == <<program, pc, candidates, codepoint_to_name, stdout, exit_status,
          font, handle, close_calls, mode, read_only, engraving_defaults, result>>

(***************************************************************************)
(* Bounds                                                                  *)
(***************************************************************************)
MaxFiles == 2
MaxGlyphs == 3
MaxCloseCalls == 2

(***************************************************************************)
(* Python values                                                           *)
(***************************************************************************)
PyNone == [type |-> "NoneType", val |-> <<>>]
PyDict(f) == [type |-> "dict", val |-> f]
PyList(s) == [type |-> "list", val |-> s]
PyStr(s) == [type |-> "str", val |-> <<s>>]
Unset == [type |-> "unset", val |-> <<>>]

\* bool(v) for the values above
Truthy(v) ==
    CASE v.type = "NoneType" -> FALSE
      [] v.type = "dict" -> DOMAIN v.val # {}
      [] v.type = "list" -> Len(v.val) > 0
      [] v.type = "str" -> v.val # <<"">>
      [] OTHER -> TRUE

Ok(v) == [exc |-> "none", val |-> v]
Raise(e) == [exc |-> e, val |-> <<>>]

\* d[k] = v on a Python dict
DictSet(d, k, v) == (k :> v) @@ d

(***************************************************************************)
(* Static data of SmuflFont                                                *)
(***************************************************************************)
valid_anchor_names == {
    "stemUpSE", "stemUpNW", "stemDownNW", "stemDownSW",
    "splitStemUpSE", "splitStemUpSW", "splitStemDownNE", "splitStemDownNW",
    "cutOutNE", "cutOutSE", "cutOutSW", "cutOutNW",
    "numeralTop", "numeralBottom",
    "graceNoteSlashSW", "graceNoteSlashNE", "graceNoteSlashNW", "graceNoteSlashSE",
    "repeatOffset", "noteheadOrigin", "opticalCenter" }

HexDigit == <<"0", "1", "2", "3", "4", "5", "6", "7",
              "8", "9", "A", "B", "C", "D", "E", "F">>

\* hex(n)[2:].upper() for n >= 0
RECURSIVE HexUpper(_)
HexUpper(n) ==
    IF n < 16 THEN HexDigit[n + 1]
    ELSE HexUpper(n \div 16) \o HexDigit[(n % 16) + 1]

\* 'U+' + hex(unicode_)[2:].upper(); hex of a negative number is '-0x..',
\* so the slice keeps the 'x'
format_codepoint(unicode_) ==
    IF unicode_ >= 0 THEN "U+" \o HexUpper(unicode_)
    ELSE "U+X" \o HexUpper(-unicode_)

\* a conversion that truncates instead of rounding
em_to_spaces_truncating(em) == (4 * em) \div 10

\* round(em/250, 3): em in tenths of a unit, the result in thousandths
em_to_spaces(em) == (4 * em + 5) \div 10

(***************************************************************************)
(* The reference table                                                     *)
(***************************************************************************)
Undefined == [defined |-> FALSE, map |-> <<>>]
Defined(m) == [defined |-> TRUE, map |-> m]

\* {data['codepoint']: name for name, data in glyphnames.items()}
RECURSIVE CodepointToName(_)
CodepointToName(glyphnames) ==
    IF glyphnames = <<>> THEN <<>>
    ELSE LET n == Len(glyphnames)
             rest == CodepointToName(SubSeq(glyphnames, 1, n - 1))
         IN  DictSet(rest, glyphnames[n][2], glyphnames[n][1])

\* a lookup that ignores the fallback flag
canonical_glyphname_ignores_flag(unicode_, fallback) ==
    LET codepoint == format_codepoint(unicode_) IN
    IF ~codepoint_to_name.defined THEN Raise("AttributeError")
    ELSE IF codepoint \in DOMAIN codepoint_to_name.map
         THEN Ok(codepoint_to_name.map[codepoint])
    ELSE Raise("NameError")

canonical_glyphname(unicode_, fallback) ==
    LET codepoint == format_codepoint(unicode_) IN
    IF ~codepoint_to_name.defined THEN Raise("AttributeError")
    ELSE IF codepoint \in DOMAIN codepoint_to_name.map
         THEN Ok(codepoint_to_name.map[codepoint])
    ELSE IF fallback THEN Raise("NameError")
    ELSE Raise("ValueError")

(***************************************************************************)
(* Fonts                                                                   *)
(*                                                                         *)
(* A glyph has the attributes the scripts read: glyphname, unicode,        *)
(* anchorPoints (tuples (name, type, x, y)), boundingBox() (xmin, ymin,    *)
(* xmax, ymax) and getPosSub('*') (tuples (subtable, type, names...)).     *)
(***************************************************************************)
Glyph(n, u, a, b, p) ==
    [glyphname |-> n, unicode |-> u, anchorPoints |-> a,
     boundingBox |-> b, posSub |-> p]

GlyphPool == <<
    Glyph("belowRange", 57343,
          << <<"stemUpSE", "base", 400, 1000>> >>,
          <<0, 0, 2500, 2500>>,
          << <<"lig", "Ligature", "uniE000", "uniF3FF">>,
             <<"alt", "AltSubs", "uniE000">> >>),
    Glyph("uniE000", 57344,
          << <<"stemUpSE", "base", 400, 1000>> >>,
          <<0, -1253, 2951, 1250>>,
          << >>),
    Glyph("customGlyph", 57345,
          << <<"bogus", "base", 10, 10>>,
             <<"cutOutNE", "base", -13, 2508>>,
             <<"numeralTop", "base", 1237, 6>> >>,
          <<-37, -4, 1236, 9>>,
          << <<"alt1", "AltSubs", "uniE000", "aboveRange">>,
             <<"kern", "Pair", "uniE000">>,
             <<"alt2", "AltSubs", "uniE000">>,
             <<"liga", "Ligature", "uniE000", "aboveRange">> >>),
    Glyph("uniE002", 57346,
          << >>,
          <<0, 0, 0, 0>>,
          << <<"salt", "AltSubs", "unencoded">> >>),
    Glyph("uniF3FF", 62463,
          << <<"bogus", "base", 400, 1000>> >>,
          <<12, 13, 14, 15>>,
          << <<"lig1", "Ligature", "uniE000", "customGlyph">>,
             <<"sub", "Substitution", "uniE000">>,
             <<"lig2", "Ligature", "uniE002">> >>),
    Glyph("aboveRange", 62464,
          << <<"opticalCenter", "base", 1250, -1250>> >>,
          <<-2500, -2500, 0, 0>>,
          << <<"lig", "Ligature", "uniE000", "uniE002">>,
             <<"alt", "AltSubs", "uniE000">> >>),
    Glyph("unencoded", -1,
          << <<"noteheadOrigin", "base", 5, 5>> >>,
          <<1, 2, 3, 4>>,
          << <<"lig", "Ligature", "uniE000">> >>) >>

\* the glyphs of the pool picked by the index set S, in pool order
RECURSIVE PickFrom(_, _)
PickFrom(S, i) ==
    IF i > Len(GlyphPool) THEN <<>>
    ELSE (IF i \in S THEN <<GlyphPool[i]>> ELSE <<>>) \o PickFrom(S, i + 1)

\* the font name as its characters
FontNames == { <<"S", "e", "B">> }

Fonts ==
    { [fontname |-> n, version |-> "1.0", glyphs |-> PickFrom(S, 1)] :
        n \in FontNames,
        S \in { T \in SUBSET (1 .. Len(GlyphPool)) : Cardinality(T) <= MaxGlyphs } }

(***************************************************************************)
(* glyphnames.json candidates: a file is malformed or a JSON object        *)
(* {name: {"codepoint": "U+XXXX"}}, kept as its (name, codepoint) items    *)
(***************************************************************************)
Malformed == [ok |-> FALSE, glyphnames |-> <<>>]
WellFormed(g) == [ok |-> TRUE, glyphnames |-> g]

GlyphnamesFull ==
    << <<"noteheadBlack", "U+E000">>, <<"noteheadWhole", "U+E001">>,
       <<"noteheadHalf", "U+E002">>, <<"lastGlyph", "U+F3FF">>,
       <<"beyondRange", "U+F400">> >>

GlyphnamesPartial ==
    << <<"noteheadBlackOld", "U+E000">>, <<"noteheadBlack", "U+E000">>,
       <<"lastGlyph", "U+F3FF">> >>

FileContents == {Malformed, WellFormed(GlyphnamesFull), WellFormed(GlyphnamesPartial)}

RECURSIVE SeqsUpTo(_, _)
SeqsUpTo(S, n) ==
    IF n = 0 THEN {<<>>}
    ELSE LET shorter == SeqsUpTo(S, n - 1)
         IN  shorter \cup {Append(s, x) : s \in shorter, x \in S}

(***************************************************************************)
(* SmuflFont: iteration and lookup                                         *)
(***************************************************************************)
\* a range check that lets 62464 in
InSmuflRange_off_by_one(char) == 57344 <= char.unicode /\ char.unicode <= 62464

InSmuflRange(char) == 57344 <= char.unicode /\ char.unicode <= 62463

\* SmuflFont.__iter__
SmuflGlyphs(f) == SelectSeq(f.glyphs, InSmuflRange)

\* SmuflFont.__getitem__: fontforge raises for a name the font lacks
GetItem(f, glyphname) ==
    LET hits == SelectSeq(f.glyphs, LAMBDA g : g.glyphname = glyphname)
    IN  IF hits = <<>> THEN Raise("TypeError") ELSE Ok(hits[1])

(***************************************************************************)
(* _SmuflMetadata (ffsmufl.py): the four sub-tables and the document.      *)
(* Every operator yields Ok(value) or the first exception raised.          *)
(***************************************************************************)
\* the inner loop of anchors(): the recognised anchors of one glyph
RECURSIVE char_anchors(_)
char_anchors(anchorPoints) ==
    IF anchorPoints = <<>> THEN <<>>
    ELSE LET n == Len(anchorPoints)
             anchor == anchorPoints[n]
             before == char_anchors(SubSeq(anchorPoints, 1, n - 1))
         IN  IF anchor[1] \in valid_anchor_names
             THEN DictSet(before, anchor[1],
                          <<em_to_spaces(anchor[3]), em_to_spaces(anchor[4])>>)
             ELSE before

RECURSIVE anchors_loop(_, _)
anchors_loop(chars, all_anchors) ==
    IF chars = <<>> THEN Ok(all_anchors)
    ELSE LET char == Head(chars)
             found == char_anchors(char.anchorPoints)
         IN  IF DOMAIN found # {}
             THEN LET char_name == canonical_glyphname(char.unicode, TRUE)
                  IN  IF char_name.exc # "none" THEN char_name
                      ELSE anchors_loop(Tail(chars),
                                        DictSet(all_anchors, char_name.val, found))
             ELSE anchors_loop(Tail(chars), all_anchors)

anchors(f) == anchors_loop(SmuflGlyphs(f), <<>>)

\* the lookup tables of one glyph of the given type, in order
TablesOfType(char, type) == SelectSeq(char.posSub, LAMBDA table : table[2] = type)

\* the substitutes of one AltSubs table, appended to char_alternates
RECURSIVE substitutes_loop(_, _, _)
substitutes_loop(f, names, char_alternates) ==
    IF names = <<>> THEN Ok(char_alternates)
    ELSE LET substitute_char == GetItem(f, Head(names))
         IN  IF substitute_char.exc # "none" THEN substitute_char
             ELSE LET codepoint == format_codepoint(substitute_char.val.unicode)
                      name == canonical_glyphname(substitute_char.val.unicode, TRUE)
                  IN  IF name.exc # "none" THEN name
                      ELSE substitutes_loop(f, Tail(names),
                               Append(char_alternates,
                                      [codepoint |-> codepoint, name |-> name.val]))

RECURSIVE alt_tables_loop(_, _, _)
alt_tables_loop(f, tables, char_alternates) ==
    IF tables = <<>> THEN Ok(char_alternates)
    ELSE LET table == Head(tables)
             more == substitutes_loop(f, SubSeq(table, 3, Len(table)), char_alternates)
         IN  IF more.exc # "none" THEN more
             ELSE alt_tables_loop(f, Tail(tables), more.val)

RECURSIVE alternates_loop(_, _, _)
alternates_loop(f, chars, all_alternates) ==
    IF chars = <<>> THEN Ok(all_alternates)
    ELSE LET char == Head(chars)
             char_alternates == alt_tables_loop(f, TablesOfType(char, "AltSubs"), <<>>)
         IN  IF char_alternates.exc # "none" THEN char_alternates
             ELSE IF char_alternates.val # <<>>
             THEN LET char_name == canonical_glyphname(char.unicode, TRUE)
                  IN  IF char_name.exc # "none" THEN char_name
                      ELSE alternates_loop(f, Tail(chars),
                               DictSet(all_alternates, char_name.val,
                                       PyDict("alternates" :> PyList(char_alternates.val))))
             ELSE alternates_loop(f, Tail(chars), all_alternates)

alternates(f) == alternates_loop(f, SmuflGlyphs(f), <<>>)

RECURSIVE bounding_boxes_loop(_, _)
bounding_boxes_loop(chars, all_bounding_boxes) ==
    IF chars = <<>> THEN Ok(all_bounding_boxes)
    ELSE LET char == Head(chars)
             char_name == canonical_glyphname(char.unicode, TRUE)
             xmin == em_to_spaces(char.boundingBox[1])
             ymin == em_to_spaces(char.boundingBox[2])
             xmax == em_to_spaces(char.boundingBox[3])
             ymax == em_to_spaces(char.boundingBox[4])
         IN  IF char_name.exc # "none" THEN char_name
             ELSE bounding_boxes_loop(Tail(chars),
                      DictSet(all_bounding_boxes, char_name.val,
                              [bBoxNE |-> <<xmax, ymax>>, bBoxSW |-> <<xmin, ymin>>]))

bounding_boxes(f) == bounding_boxes_loop(SmuflGlyphs(f), <<>>)

\* a loop that keeps the first Ligature table of a glyph
lig_tables_first_wins(char, char_name, tables, all_ligatures) ==
    IF tables = <<>> THEN all_ligatures
    ELSE DictSet(all_ligatures, char_name,
                 [codepoint |-> format_codepoint(char.unicode),
                  componentGlyphs |-> SubSeq(Head(tables), 3, Len(Head(tables)))])

\* the Ligature tables of one glyph, each assigned under the same key
RECURSIVE lig_tables_loop(_, _, _, _)
lig_tables_loop(char, char_name, tables, all_ligatures) ==
    IF tables = <<>> THEN all_ligatures
    ELSE LET table == Head(tables)
             component_names == SubSeq(table, 3, Len(table))
         IN  lig_tables_loop(char, char_name, Tail(tables),
                 DictSet(all_ligatures, char_name,
                         [codepoint |-> format_codepoint(char.unicode),
                          componentGlyphs |-> component_names]))

RECURSIVE ligatures_loop(_, _)
ligatures_loop(chars, all_ligatures) ==
    IF chars = <<>> THEN Ok(all_ligatures)
    ELSE LET char == Head(chars)
             char_name == canonical_glyphname(char.unicode, TRUE)
         IN  IF char_name.exc # "none" THEN char_name
             ELSE ligatures_loop(Tail(chars),
                      lig_tables_loop(char, char_name.val,
                                      TablesOfType(char, "Ligature"), all_ligatures))

ligatures(f) == ligatures_loop(SmuflGlyphs(f), <<>>)

\* d[key] = value on the document, an insertion-ordered dict of fresh keys
Entry(k, v) == [key |-> k, value |-> v]

\* a string from its characters
RECURSIVE Join(_)
Join(chars) == IF chars = <<>> THEN "" ELSE Head(chars) \o Join(Tail(chars))

\* a document that holds the anchors table even when it is empty
asdict_keeps_empty(f, ed) ==
    LET d0 == << Entry("fontName", Join(f.fontname)),
                 Entry("fontVersion", f.version) >>
        d1 == IF Truthy(ed) THEN Append(d0, Entry("engravingDefaults", ed)) ELSE d0
        a == anchors(f)
        d2 == Append(d1, Entry("glyphsWithAnchors", a.val))
        alt == alternates(f)
        d3 == IF DOMAIN alt.val # {} THEN Append(d2, Entry("glyphsWithAlternates", alt.val)) ELSE d2
        bb == bounding_boxes(f)
        d4 == IF DOMAIN bb.val # {} THEN Append(d3, Entry("glyphBBoxes", bb.val)) ELSE d3
        lig == ligatures(f)
        d5 == IF DOMAIN lig.val # {} THEN Append(d4, Entry("ligatures", lig.val)) ELSE d4
    IN  IF a.exc # "none" THEN a
        ELSE IF alt.exc # "none" THEN alt
        ELSE IF bb.exc # "none" THEN bb
        ELSE IF lig.exc # "none" THEN lig
        ELSE Ok(d5)

\* _SmuflMetadata.asdict for the font f with the stored defaults ed
asdict(f, ed) ==
    LET d0 == << Entry("fontName", Join(f.fontname)),
                 Entry("fontVersion", f.version) >>
        d1 == IF Truthy(ed) THEN Append(d0, Entry("engravingDefaults", ed)) ELSE d0
        a == anchors(f)
        d2 == IF DOMAIN a.val # {} THEN Append(d1, Entry("glyphsWithAnchors", a.val)) ELSE d1
        alt == alternates(f)
        d3 == IF DOMAIN alt.val # {} THEN Append(d2, Entry("glyphsWithAlternates", alt.val)) ELSE d2
        bb == bounding_boxes(f)
        d4 == IF DOMAIN bb.val # {} THEN Append(d3, Entry("glyphBBoxes", bb.val)) ELSE d3
        lig == ligatures(f)
        d5 == IF DOMAIN lig.val # {} THEN Append(d4, Entry("ligatures", lig.val)) ELSE d4
    IN  IF a.exc # "none" THEN a
        ELSE IF alt.exc # "none" THEN alt
        ELSE IF bb.exc # "none" THEN bb
        ELSE IF lig.exc # "none" THEN lig
        ELSE Ok(d5)

(***************************************************************************)
(* ff_smufl_metadata.py: the stand-alone SmuflMetadata class.  Its table   *)
(* is always defined here: the module exits when it cannot load it.        *)
(***************************************************************************)
smufl_codepoint(glyph) ==
    IF glyph.unicode >= 0 THEN "U+" \o HexUpper(glyph.unicode)
    ELSE "U+X" \o HexUpper(-glyph.unicode)

smufl_canonical_name(glyph, fallback) ==
    LET codepoint == smufl_codepoint(glyph) IN
    IF codepoint \in DOMAIN codepoint_to_name.map
    THEN Ok(codepoint_to_name.map[codepoint])
    ELSE IF fallback THEN Ok(glyph.glyphname)
    ELSE Raise("ValueError")

\* round(i/250, 3), in the units of em_to_spaces
to_spaces(i) == (4 * i + 5) \div 10

\* SmuflMetadata.characters
characters(f) == SelectSeq(f.glyphs, LAMBDA char : 57344 <= char.unicode /\ char.unicode <= 62463)

RECURSIVE smufl_char_anchors(_)
smufl_char_anchors(anchorPoints) ==
    IF anchorPoints = <<>> THEN <<>>
    ELSE LET n == Len(anchorPoints)
             anchor == anchorPoints[n]
             before == smufl_char_anchors(SubSeq(anchorPoints, 1, n - 1))
         IN  IF anchor[1] \in valid_anchor_names
             THEN DictSet(before, anchor[1], <<to_spaces(anchor[3]), to_spaces(anchor[4])>>)
             ELSE before

RECURSIVE glyphsWithAnchors_loop(_, _)
glyphsWithAnchors_loop(chars, all_anchors) ==
    IF chars = <<>> THEN Ok(all_anchors)
    ELSE LET char == Head(chars)
             found == smufl_char_anchors(char.anchorPoints)
         IN  IF DOMAIN found # {}
             THEN glyphsWithAnchors_loop(Tail(chars),
                      DictSet(all_anchors, smufl_canonical_name(char, TRUE).val, found))
             ELSE glyphsWithAnchors_loop(Tail(chars), all_anchors)

glyphsWithAnchors(f) == glyphsWithAnchors_loop(characters(f), <<>>)

\* every substitute of every AltSubs table of one glyph, in order
RECURSIVE smufl_substitutes(_, _, _)
smufl_substitutes(f, names, char_alternates) ==
    IF names = <<>> THEN Ok(char_alternates)
    ELSE LET substitute_char == GetItem(f, Head(names))
         IN  IF substitute_char.exc # "none" THEN substitute_char
             ELSE smufl_substitutes(f, Tail(names),
                      Append(char_alternates,
                             [codepoint |-> smufl_codepoint(substitute_char.val),
                              name |-> smufl_canonical_name(substitute_char.val, TRUE).val]))

RECURSIVE smufl_alt_tables(_, _, _)
smufl_alt_tables(f, tables, char_alternates) ==
    IF tables = <<>> THEN Ok(char_alternates)
    ELSE LET table == Head(tables)
             more == smufl_substitutes(f, SubSeq(table, 3, Len(table)), char_alternates)
         IN  IF more.exc # "none" THEN more
             ELSE smufl_alt_tables(f, Tail(tables), more.val)

RECURSIVE glyphsWithAlternates_loop(_, _, _)
glyphsWithAlternates_loop(f, chars, all_alternates) ==
    IF chars = <<>> THEN Ok(all_alternates)
    ELSE LET char == Head(chars)
             char_alternates == smufl_alt_tables(f, TablesOfType(char, "AltSubs"), <<>>)
         IN  IF char_alternates.exc # "none" THEN char_alternates
             ELSE IF char_alternates.val # <<>>
             THEN glyphsWithAlternates_loop(f, Tail(chars),
                      DictSet(all_alternates, smufl_canonical_name(char, TRUE).val,
                              PyDict("alternates" :> PyList(char_alternates.val))))
             ELSE glyphsWithAlternates_loop(f, Tail(chars), all_alternates)

glyphsWithAlternates(f) == glyphsWithAlternates_loop(f, characters(f), <<>>)

RECURSIVE glyphBBoxes_loop(_, _)
glyphBBoxes_loop(chars, all_bounding_boxes) ==
    IF chars = <<>> THEN Ok(all_bounding_boxes)
    ELSE LET char == Head(chars)
             xmin == to_spaces(char.boundingBox[1])
             ymin == to_spaces(char.boundingBox[2])
             xmax == to_spaces(char.boundingBox[3])
             ymax == to_spaces(char.boundingBox[4])
         IN  glyphBBoxes_loop(Tail(chars),
                 DictSet(all_bounding_boxes, smufl_canonical_name(char, TRUE).val,
                         [bBoxNE |-> <<xmax, ymax>>, bBoxSW |-> <<xmin, ymin>>]))

glyphBBoxes(f) == glyphBBoxes_loop(characters(f), <<>>)

RECURSIVE smufl_lig_tables(_, _, _)
smufl_lig_tables(char, tables, all_ligatures) ==
    IF tables = <<>> THEN all_ligatures
    ELSE LET table == Head(tables)
         IN  smufl_lig_tables(char, Tail(tables),
                 DictSet(all_ligatures, smufl_canonical_name(char, TRUE).val,
                         [codepoint |-> smufl_codepoint(char),
                          componentGlyphs |-> SubSeq(table, 3, Len(table))]))

RECURSIVE SmuflMetadata_ligatures_loop(_, _)
SmuflMetadata_ligatures_loop(chars, all_ligatures) ==
    IF chars = <<>> THEN Ok(all_ligatures)
    ELSE SmuflMetadata_ligatures_loop(Tail(chars),
             smufl_lig_tables(Head(chars), TablesOfType(Head(chars), "Ligature"),
                              all_ligatures))

SmuflMetadata_ligatures(f) == SmuflMetadata_ligatures_loop(characters(f), <<>>)

\* SmuflMetadata(font, engravingDefaults).asdict()
\* an asdict that writes the bounding boxes before the alternates
SmuflMetadata_asdict_swapped(f, engravingDefaults) ==
    LET d0 == << Entry("fontName", Join(f.fontname)),
                 Entry("fontVersion", f.version) >>
        d1 == IF Truthy(engravingDefaults)
              THEN Append(d0, Entry("engravingDefaults", engravingDefaults)) ELSE d0
        a == glyphsWithAnchors(f)
        d2 == IF DOMAIN a.val # {} THEN Append(d1, Entry("glyphsWithAnchors", a.val)) ELSE d1
        bb == glyphBBoxes(f)
        d3 == IF DOMAIN bb.val # {} THEN Append(d2, Entry("glyphBBoxes", bb.val)) ELSE d2
        alt == glyphsWithAlternates(f)
        d4 == IF DOMAIN alt.val # {} THEN Append(d3, Entry("glyphsWithAlternates", alt.val)) ELSE d3
        lig == SmuflMetadata_ligatures(f)
        d5 == IF DOMAIN lig.val # {} THEN Append(d4, Entry("ligatures", lig.val)) ELSE d4
    IN  IF alt.exc # "none" THEN alt ELSE Ok(d5)

SmuflMetadata_asdict(f, engravingDefaults) ==
    LET d0 == << Entry("fontName", Join(f.fontname)),
                 Entry("fontVersion", f.version) >>
        d1 == IF Truthy(engravingDefaults)
              THEN Append(d0, Entry("engravingDefaults", engravingDefaults)) ELSE d0
        a == glyphsWithAnchors(f)
        d2 == IF DOMAIN a.val # {} THEN Append(d1, Entry("glyphsWithAnchors", a.val)) ELSE d1
        alt == glyphsWithAlternates(f)
        d3 == IF DOMAIN alt.val # {} THEN Append(d2, Entry("glyphsWithAlternates", alt.val)) ELSE d2
        bb == glyphBBoxes(f)
        d4 == IF DOMAIN bb.val # {} THEN Append(d3, Entry("glyphBBoxes", bb.val)) ELSE d3
        lig == SmuflMetadata_ligatures(f)
        d5 == IF DOMAIN lig.val # {} THEN Append(d4, Entry("ligatures", lig.val)) ELSE d4
    IN  IF alt.exc # "none" THEN alt ELSE Ok(d5)

(***************************************************************************)
(* SmuflFont: the facade's operations as functions of the state            *)
(***************************************************************************)
\* str.lower() on the characters the font names use
LowerChar(c) ==
    CASE c = "S" -> "s"
      [] c = "B" -> "b"
      [] c = "E" -> "e"
      [] OTHER -> c

Lower(chars) == [i \in DOMAIN chars |-> LowerChar(chars[i])]

\* any use of a fontforge font that was closed raises RuntimeError
Forward(call) == IF handle = "closed" THEN Raise("RuntimeError") ELSE Ok(call)

Call(method, args) == [method |-> method, args |-> args]

\* the values an engraving_defaults assignment is tried with
DefaultsSome == PyDict("stemThickness" :> 125)
EngravingInputs ==
    { PyNone, PyDict(<<>>), DefaultsSome, PyList(<<125>>), PyStr("thick") }

\* a setter that rejects None only
SetterExc_no_type_check(defaults) ==
    IF defaults.type = "unset" THEN "TypeError" ELSE "none"

\* the engraving_defaults setter: the exception it raises, if any
SetterExc(defaults) ==
    IF defaults.type # "NoneType" /\ defaults.type # "dict"
    THEN "TypeError" ELSE "none"

\* SmuflFont.generate_metadata
generate_metadata ==
    IF handle = "closed" THEN Raise("RuntimeError")
    ELSE asdict(font, engraving_defaults)

\* fontforge renames the glyph and the references to it in the lookups
FixupTable(table, old, new) ==
    [i \in DOMAIN table |-> IF i >= 3 /\ table[i] = old THEN new ELSE table[i]]

\* a rename that also takes the glyph's codepoint away
RenameIn_recodes(glyphs, k, new) ==
    [i \in DOMAIN glyphs |->
        [glyphs[i] EXCEPT
            !.glyphname = IF i = k THEN new ELSE @,
            !.unicode = IF i = k THEN -1 ELSE @]]

RenameIn(glyphs, k, new) ==
    LET old == glyphs[k].glyphname IN
    [i \in DOMAIN glyphs |->
        [glyphs[i] EXCEPT
            !.glyphname = IF i = k THEN new ELSE @,
            !.posSub = [j \in DOMAIN @ |-> FixupTable(@[j], old, new)]]]

\* SmuflFont.rename_glyphs: the glyphs after the loop and how it ended
RECURSIVE rename_loop(_, _)
rename_loop(glyphs, k) ==
    IF k > Len(glyphs) THEN [exc |-> "none", glyphs |-> glyphs]
    ELSE IF ~InSmuflRange(glyphs[k]) THEN rename_loop(glyphs, k + 1)
    ELSE LET name == canonical_glyphname(glyphs[k].unicode, TRUE)
         IN  IF name.exc # "none" THEN [exc |-> name.exc, glyphs |-> glyphs]
             ELSE rename_loop(RenameIn(glyphs, k, name.val), k + 1)

rename_glyphs ==
    IF handle = "closed" THEN [exc |-> "RuntimeError", glyphs |-> font.glyphs]
    ELSE rename_loop(font.glyphs, 1)

(***************************************************************************)
(* The state machine                                                       *)
(***************************************************************************)
NoResult == [op |-> "none", args |-> <<>>, exc |-> "none", val |-> <<>>,
             forwarded |-> <<>>, written |-> <<>>]

Res(op, args, exc, val, forwarded, written) ==
    [op |-> op, args |-> args, exc |-> exc, val |-> val,
     forwarded |-> forwarded, written |-> written]

Init ==
    /\ program \in {"ffsmufl", "ff_smufl_metadata", "ff-smufl"}
    /\ pc = "start"
    /\ candidates \in SeqsUpTo(FileContents, MaxFiles)
    \* ff_smufl_metadata.py and ff-smufl.py look at one path only
    /\ program # "ffsmufl" => Len(candidates) <= 1
    /\ codepoint_to_name = Undefined
    /\ stdout = <<>>
    /\ exit_status = -1
    /\ font \in Fonts
    /\ handle = "unopened"
    /\ close_calls = 0
    /\ mode = ""
    /\ read_only = FALSE
    /\ engraving_defaults = Unset
    /\ result = NoResult

\* the class body of SmuflFont: the first candidate that loads wins
RECURSIVE load_glyphnames(_)
load_glyphnames(paths) ==
    IF paths = <<>> THEN Undefined
    ELSE IF Head(paths).ok THEN Defined(CodepointToName(Head(paths).glyphnames))
    ELSE load_glyphnames(Tail(paths))

Import ==
    /\ program = "ffsmufl"
    /\ pc = "start"
    /\ codepoint_to_name' = load_glyphnames(candidates)
    /\ candidates' = <<>>
    /\ pc' = "imported"
    /\ UNCHANGED <<program, stdout, exit_status, font, handle, close_calls,
                   mode, read_only, engraving_defaults, result>>

\* SmuflFont.__init__(path, mode, engraving_defaults)
Construct(path_ok, m, defaults) ==
    /\ program \in {"ffsmufl", "ff-smufl"}
    /\ pc = "imported"
    /\ mode' = m
    /\ IF ~path_ok
       THEN /\ pc' = "ctor_failed"
            /\ result' = Res("__init__", <<m, defaults>>, "OSError", <<>>, <<>>, <<>>)
            /\ UNCHANGED <<handle, read_only, engraving_defaults>>
       ELSE /\ handle' = "open"
            /\ read_only' = (m = "r")
            /\ IF SetterExc(defaults) # "none"
               THEN /\ pc' = "ctor_failed"
                    /\ result' = Res("__init__", <<m, defaults>>, SetterExc(defaults),
                                     <<>>, <<>>, <<>>)
                    /\ UNCHANGED engraving_defaults
               ELSE /\ pc' = "constructed"
                    /\ engraving_defaults' = defaults
                    /\ result' = Res("__init__", <<m, defaults>>, "none", <<>>, <<>>, <<>>)
    /\ UNCHANGED <<program, candidates, codepoint_to_name, stdout, exit_status,
                   font, close_calls>>

\* SmuflFont.__enter__
Enter ==
    /\ pc = "constructed"
    /\ pc' = "inside"
    /\ UNCHANGED <<program, candidates, codepoint_to_name, stdout, exit_status,
                   font, handle, close_calls, mode, read_only, engraving_defaults, result>>

\* SmuflFont.__exit__: closes the font; a pending exception propagates
Exit ==
    /\ pc = "inside"
    /\ close_calls < MaxCloseCalls
    /\ pc' = "exited"
    /\ close_calls' = close_calls + 1
    /\ handle' = "closed"
    /\ result' = Res("__exit__", <<>>,
                     IF Forward(Call("close", <<>>)).exc # "none"
                     THEN Forward(Call("close", <<>>)).exc ELSE result.exc,
                     <<>>, <<Call("close", <<>>)>>, <<>>)
    /\ UNCHANGED <<program, candidates, codepoint_to_name, stdout, exit_status,
                   font, mode, read_only, engraving_defaults>>

Usable == program = "ffsmufl" /\ pc \in {"constructed", "inside"}

\* save without the read-only guard
save_unguarded(args) ==
    Res("save", args, Forward(Call("save", args)).exc, <<>>,
        <<Call("save", args)>>, <<>>)

\* SmuflFont.save(*args): the outcome and the calls made on the font
save(args) ==
    IF read_only /\ args = <<>>
    THEN Res("save", args, "PermissionError", <<>>, <<>>, <<>>)
    ELSE Res("save", args, Forward(Call("save", args)).exc, <<>>,
             <<Call("save", args)>>, <<>>)

Save(args) ==
    /\ Usable
    /\ result' = save(args)
    /\ UNCHANGED <<program, pc, candidates, codepoint_to_name, stdout, exit_status,
                   font, handle, close_calls, mode, read_only, engraving_defaults>>

\* SmuflFont.close()
Close ==
    /\ Usable
    /\ close_calls < MaxCloseCalls
    /\ close_calls' = close_calls + 1
    /\ handle' = "closed"
    /\ result' = Res("close", <<>>, Forward(Call("close", <<>>)).exc, <<>>,
                     <<Call("close", <<>>)>>, <<>>)
    /\ UNCHANGED <<program, pc, candidates, codepoint_to_name, stdout, exit_status,
                   font, mode, read_only, engraving_defaults>>

\* SmuflFont.export_font(filename); "" stands for an omitted filename
ExportFont(filename) ==
    /\ Usable
    /\ result' =
         IF filename = "" /\ handle = "closed"
         THEN Res("export_font", <<filename>>, "RuntimeError", <<>>, <<>>, <<>>)
         ELSE LET chosen == IF filename # "" THEN filename
                            ELSE Join(Lower(font.fontname)) \o ".otf"
                  call == Call("generate", <<chosen>>)
              IN  Res("export_font", <<filename>>, Forward(call).exc, <<>>,
                      <<call>>, <<>>)
    /\ UNCHANGED <<program, pc, candidates, codepoint_to_name, stdout, exit_status,
                   font, handle, close_calls, mode, read_only, engraving_defaults>>

\* SmuflFont.generate_metadata()
GenerateMetadata ==
    /\ Usable
    /\ result' = Res("generate_metadata", <<>>, generate_metadata.exc,
                     generate_metadata.val, <<>>, <<>>)
    /\ UNCHANGED <<program, pc, candidates, codepoint_to_name, stdout, exit_status,
                   font, handle, close_calls, mode, read_only, engraving_defaults>>

\* SmuflFont.export_metadata(filename): the file is opened for writing, and
\* so truncated, before the document is generated
ExportMetadata(filename) ==
    /\ Usable
    /\ result' =
         IF filename = "" /\ handle = "closed"
         THEN Res("export_metadata", <<filename>>, "RuntimeError", <<>>, <<>>, <<>>)
         ELSE LET chosen == IF filename # "" THEN filename
                            ELSE Join(Lower(font.fontname)) \o ".json"
                  document == generate_metadata
              IN  Res("export_metadata", <<filename>>, document.exc, <<>>, <<>>,
                      <<[filename |-> chosen, content |-> document.val]>>)
    /\ UNCHANGED <<program, pc, candidates, codepoint_to_name, stdout, exit_status,
                   font, handle, close_calls, mode, read_only, engraving_defaults>>

\* _SmuflMetadata(font).anchors(), .alternates(), .bounding_boxes() or
\* .ligatures(), called on their own
metadata_table(method) ==
    IF handle = "closed" THEN Raise("RuntimeError")
    ELSE CASE method = "anchors" -> anchors(font)
           [] method = "alternates" -> alternates(font)
           [] method = "bounding_boxes" -> bounding_boxes(font)
           [] method = "ligatures" -> ligatures(font)

MetadataTable(method) ==
    /\ Usable
    /\ result' = Res(method, <<>>, metadata_table(method).exc,
                     metadata_table(method).val, <<>>, <<>>)
    /\ UNCHANGED <<program, pc, candidates, codepoint_to_name, stdout, exit_status,
                   font, handle, close_calls, mode, read_only, engraving_defaults>>

\* ff-smufl.py, the class body of its SmuflFont: a missing glyphnames.json
\* prints a message and exits with status 1
FfSmuflImport ==
    /\ program = "ff-smufl"
    /\ pc = "start"
    /\ candidates' = <<>>
    /\ IF candidates = <<>>
       THEN /\ stdout' = Append(stdout, "Couldn't find glyphnames.json.")
            /\ exit_status' = 1
            /\ pc' = "terminated"
            /\ UNCHANGED <<codepoint_to_name, result>>
       ELSE IF ~Head(candidates).ok
       THEN /\ result' = Res("import", <<>>, "JSONDecodeError", <<>>, <<>>, <<>>)
            /\ exit_status' = 1
            /\ pc' = "terminated"
            /\ UNCHANGED <<codepoint_to_name, stdout>>
       ELSE /\ codepoint_to_name' = Defined(CodepointToName(Head(candidates).glyphnames))
            /\ pc' = "imported"
            /\ UNCHANGED <<stdout, exit_status, result>>
    /\ UNCHANGED <<program, font, handle, close_calls, mode, read_only, engraving_defaults>>

\* ff-smufl.py, SmuflFont.export_font(filename): the filename is computed
\* and then left out of the call; fontforge's generate takes a filename and
\* raises TypeError without one
FfSmuflExportFont(filename) ==
    /\ program = "ff-smufl"
    /\ pc \in {"constructed", "inside"}
    /\ result' =
         IF handle = "closed"
         THEN Res("export_font", <<filename>>, "RuntimeError", <<>>,
                  IF filename = "" THEN <<>> ELSE <<Call("generate", <<>>)>>, <<>>)
         ELSE Res("export_font", <<filename>>, "TypeError", <<>>,
                  <<Call("generate", <<>>)>>, <<>>)
    /\ UNCHANGED <<program, pc, candidates, codepoint_to_name, stdout, exit_status,
                   font, handle, close_calls, mode, read_only, engraving_defaults>>

\* SmuflFont.rename_glyphs()
RenameGlyphs ==
    /\ Usable
    /\ font' = [font EXCEPT !.glyphs = rename_glyphs.glyphs]
    /\ result' = Res("rename_glyphs", <<>>, rename_glyphs.exc, <<>>, <<>>, <<>>)
    /\ UNCHANGED <<program, pc, candidates, codepoint_to_name, stdout, exit_status,
                   handle, close_calls, mode, read_only, engraving_defaults>>

\* font.engraving_defaults = defaults
SetEngravingDefaults(defaults) ==
    /\ Usable
    /\ engraving_defaults' = IF SetterExc(defaults) = "none" THEN defaults
                             ELSE engraving_defaults
    /\ result' = Res("engraving_defaults", <<defaults>>, SetterExc(defaults),
                     <<>>, <<>>, <<>>)
    /\ UNCHANGED <<program, pc, candidates, codepoint_to_name, stdout, exit_status,
                   font, handle, close_calls, mode, read_only>>

\* the code points lookups are tried with
Codepoints == {57343, 57344, 57345, 57346, 62463, 62464}

\* SmuflFont.canonical_glyphname(unicode_, fallback), a static method
CanonicalGlyphname(unicode_, fallback) ==
    /\ program = "ffsmufl"
    /\ pc = "imported"
    /\ result' = Res("canonical_glyphname", <<unicode_, fallback>>,
                     canonical_glyphname(unicode_, fallback).exc,
                     canonical_glyphname(unicode_, fallback).val, <<>>, <<>>)
    /\ UNCHANGED <<program, pc, candidates, codepoint_to_name, stdout, exit_status,
                   font, handle, close_calls, mode, read_only, engraving_defaults>>

\* ff_smufl_metadata.py, module level: load glyphnames.json or exit
MetaImport ==
    /\ program = "ff_smufl_metadata"
    /\ pc = "start"
    /\ candidates' = <<>>
    /\ IF candidates = <<>>
       THEN /\ stdout' = Append(stdout, "Couldn't find glyphnames.json.")
            /\ exit_status' = 1
            /\ pc' = "terminated"
            /\ UNCHANGED <<codepoint_to_name, result>>
       ELSE IF ~Head(candidates).ok
       THEN \* the parse error is not caught: traceback, status 1
            /\ result' = Res("import", <<>>, "JSONDecodeError", <<>>, <<>>, <<>>)
            /\ exit_status' = 1
            /\ pc' = "terminated"
            /\ UNCHANGED <<codepoint_to_name, stdout>>
       ELSE /\ codepoint_to_name' = Defined(CodepointToName(Head(candidates).glyphnames))
            /\ pc' = "imported"
            /\ UNCHANGED <<stdout, exit_status, result>>
    /\ UNCHANGED <<program, font, handle, close_calls, mode, read_only, engraving_defaults>>

\* SmuflMetadata(font, engravingDefaults).asdict() on an open fontforge font
MetaAsdict(engravingDefaults) ==
    /\ program = "ff_smufl_metadata"
    /\ pc = "imported"
    /\ result' = Res("asdict", <<engravingDefaults>>,
                     SmuflMetadata_asdict(font, engravingDefaults).exc,
                     SmuflMetadata_asdict(font, engravingDefaults).val, <<>>, <<>>)
    /\ UNCHANGED <<program, pc, candidates, codepoint_to_name, stdout, exit_status,
                   font, handle, close_calls, mode, read_only, engraving_defaults>>

\* smufl_canonical_name(glyph, fallback) on the k-th glyph of the font
MetaCanonicalName(k, fallback) ==
    /\ program = "ff_smufl_metadata"
    /\ pc = "imported"
    /\ k \in DOMAIN font.glyphs
    /\ result' = Res("smufl_canonical_name", <<font.glyphs[k].unicode, fallback>>,
                     smufl_canonical_name(font.glyphs[k], fallback).exc,
                     smufl_canonical_name(font.glyphs[k], fallback).val, <<>>, <<>>)
    /\ UNCHANGED <<program, pc, candidates, codepoint_to_name, stdout, exit_status,
                   font, handle, close_calls, mode, read_only, engraving_defaults>>

Next ==
    \/ Import
    \/ \E path_ok \in BOOLEAN, m \in {"r", "w"}, defaults \in EngravingInputs :
          Construct(path_ok, m, defaults)
    \/ Enter
    \/ Exit
    \/ \E args \in {<<>>, <<"copy.sfd">>} : Save(args)
    \/ Close
    \/ \E filename \in {"", "out.otf"} : ExportFont(filename)
    \/ GenerateMetadata
    \/ \E filename \in {"", "out.json"} : ExportMetadata(filename)
    \/ \E method \in {"anchors", "alternates", "bounding_boxes", "ligatures"} :
          MetadataTable(method)
    \/ RenameGlyphs
    \/ \E defaults \in EngravingInputs : SetEngravingDefaults(defaults)
    \/ \E unicode_ \in Codepoints, fallback \in BOOLEAN :
          CanonicalGlyphname(unicode_, fallback)
    \/ FfSmuflImport
    \/ \E filename \in {"", "out.otf"} : FfSmuflExportFont(filename)
    \/ MetaImport
    \/ \E engravingDefaults \in EngravingInputs : MetaAsdict(engravingDefaults)
    \/ \E k \in 1 .. MaxGlyphs, fallback \in BOOLEAN : MetaCanonicalName(k, fallback)

Spec == Init /\ [][Next]_vars

(***************************************************************************)
(* Properties                                                              *)
(***************************************************************************)
Finished == pc \in {"exited", "ctor_failed"}

\* C1: once the font was opened, it is closed on every exit path of the
\* scoped acquisition, also when the constructor raises after opening it.
C1_ClosedOnEveryExit ==
    (Finished /\ handle # "unopened") => handle = "closed"

\* C2: with mode 'r', save() without a destination fails with
\* PermissionError and the font's save is not called; every other save is
\* forwarded to the font's save with the same arguments.
C2_SaveReadOnly ==
    result.op = "save" =>
        IF mode = "r" /\ result.args = <<>>
        THEN result.exc = "PermissionError" /\ result.forwarded = <<>>
        ELSE result.forwarded = <<Call("save", result.args)>>

C2_Witness ==
    /\ result.op = "save"
    /\ mode = "r"
    /\ result.args = <<>>
    /\ result.exc = "PermissionError"

\* the value a document holds under key, as a set of at most one element
DocValues(document, key) ==
    {document[i].value : i \in {j \in DOMAIN document : document[j].key = key}}

DocKeys(document) == {document[i].key : i \in DOMAIN document}

\* C3: assigning a value that is neither None nor a dict raises TypeError
\* and keeps the stored defaults; assigning None or a dict succeeds and
\* replaces them; a generated document shows the stored defaults.
C3_SetterTypeError ==
    /\ [][result'.op = "engraving_defaults" =>
            LET defaults == result'.args[1] IN
            IF defaults.type \in {"NoneType", "dict"}
            THEN result'.exc = "none" /\ engraving_defaults' = defaults
            ELSE result'.exc = "TypeError"
                 /\ engraving_defaults' = engraving_defaults]_vars
    /\ [](pc \in {"constructed", "inside", "exited"} =>
            engraving_defaults.type \in {"NoneType", "dict"})
    /\ []((result.op = "generate_metadata" /\ result.exc = "none") =>
            DocValues(result.val, "engravingDefaults") =
                IF Truthy(engraving_defaults) THEN {engraving_defaults} ELSE {})

C3_Witness ==
    /\ result.op = "engraving_defaults"
    /\ result.exc = "TypeError"
    /\ result.args = <<PyList(<<125>>)>>
    /\ engraving_defaults = DefaultsSome

\* a lookup of the facade's static method or of the metadata module
IsLookup == result.op \in {"canonical_glyphname", "smufl_canonical_name"}
LookupCodepoint == format_codepoint(result.args[1])
LookupHits == LookupCodepoint \in DOMAIN codepoint_to_name.map
InRange(unicode_) == 57344 <= unicode_ /\ unicode_ <= 62463

\* the name the glyph at a code point had when the font was opened
OriginalName(unicode_) ==
    LET k == CHOOSE i \in DOMAIN GlyphPool : GlyphPool[i].unicode = unicode_
    IN  GlyphPool[k].glyphname

\* C4: with the table loaded and fallback enabled, a lookup in the SMuFL
\* range returns the table's name on a hit and, on a miss, does not fail
\* (the metadata module, which is given the glyph, returns its name).
C4_CanonicalName ==
    (IsLookup /\ codepoint_to_name.defined /\ InRange(result.args[1])
       /\ result.args[2]) =>
        IF LookupHits
        THEN result.exc = "none" /\ result.val = codepoint_to_name.map[LookupCodepoint]
        ELSE result.exc = "none"
             /\ (result.op = "smufl_canonical_name" =>
                    result.val = OriginalName(result.args[1]))

LookupErrors == {"LookupError", "KeyError", "IndexError"}

\* C5 as claimed: a miss with fallback disabled fails with LookupError.
C5_MissRaisesLookupError ==
    (IsLookup /\ codepoint_to_name.defined /\ ~LookupHits /\ ~result.args[2]) =>
        result.exc \in LookupErrors

\* C5: a miss in the loaded table with fallback disabled fails with
\* ValueError and returns no name.
C5_MissRaisesValueError ==
    (IsLookup /\ codepoint_to_name.defined /\ ~LookupHits /\ ~result.args[2]) =>
        result.exc = "ValueError" /\ result.val = <<>>

C5_Witness ==
    /\ result.op = "canonical_glyphname"
    /\ codepoint_to_name.defined
    /\ result.args = <<57345, FALSE>>
    /\ ~LookupHits
    /\ result.exc = "ValueError"

\* C6: rename_glyphs completes without error; afterwards a glyph in
\* [57344, 62463] has the table's name if the table has one and its
\* old name otherwise, and a glyph outside the range has its old name.
C6_RenameGlyphs ==
    (result.op = "rename_glyphs" /\ handle = "open" /\ codepoint_to_name.defined) =>
        /\ result.exc = "none"
        /\ \A i \in DOMAIN font.glyphs :
              LET glyph == font.glyphs[i]
                  codepoint == format_codepoint(glyph.unicode)
              IN  glyph.glyphname =
                    IF InRange(glyph.unicode) /\ codepoint \in DOMAIN codepoint_to_name.map
                    THEN codepoint_to_name.map[codepoint]
                    ELSE OriginalName(glyph.unicode)

\* C7: when no glyphnames.json can be loaded, the process exits with
\* status 1 at import and never goes on with the table undefined.
C7_MissingTableIsFatal ==
    (pc # "start" /\ ~codepoint_to_name.defined) =>
        pc = "terminated" /\ exit_status = 1 /\ handle = "unopened"

\* a document was returned by generate_metadata or by SmuflMetadata.asdict
HasDocument == result.op \in {"generate_metadata", "asdict"} /\ result.exc = "none"

GlyphTables == {"glyphsWithAnchors", "glyphsWithAlternates", "glyphBBoxes", "ligatures"}

\* the sub-table of the returned document under key, empty when left out
SubTable(key) ==
    IF key \in DocKeys(result.val)
    THEN CHOOSE t \in DocValues(result.val, key) : TRUE
    ELSE <<>>

\* C8: a returned document never holds an optional sub-table that is empty.
C8_NoEmptySubTable ==
    HasDocument =>
        \A i \in DOMAIN result.val :
            /\ result.val[i].key = "engravingDefaults" => Truthy(result.val[i].value)
            /\ result.val[i].key \in GlyphTables => DOMAIN result.val[i].value # {}

\* a font with glyphs in range but no recognised anchor and empty defaults
C8_Witness ==
    /\ result.op = "generate_metadata"
    /\ result.exc = "none"
    /\ engraving_defaults = PyDict(<<>>)
    /\ \E i \in DOMAIN font.glyphs : InRange(font.glyphs[i].unicode)
    /\ "glyphsWithAnchors" \notin DocKeys(result.val)
    /\ "engravingDefaults" \notin DocKeys(result.val)
    /\ "glyphBBoxes" \in DocKeys(result.val)

\* the name a glyph is listed under: the table's, else its own
ResolvedName(glyph) ==
    IF format_codepoint(glyph.unicode) \in DOMAIN codepoint_to_name.map
    THEN codepoint_to_name.map[format_codepoint(glyph.unicode)]
    ELSE glyph.glyphname

GlyphsOf(f) == {f.glyphs[i] : i \in DOMAIN f.glyphs}

\* C9: every key of the four glyph sub-tables is the resolved name of a
\* glyph of the font in [57344, 62463]; a glyph outside the range
\* contributes no key.
C9_OnlySmuflRangeKeys ==
    HasDocument =>
        \A key \in GlyphTables :
            /\ \A name \in DOMAIN SubTable(key) :
                  \E glyph \in GlyphsOf(font) :
                      InRange(glyph.unicode) /\ ResolvedName(glyph) = name
            /\ \A glyph \in GlyphsOf(font) :
                  ~InRange(glyph.unicode) => ResolvedName(glyph) \notin DOMAIN SubTable(key)

\* a document of a font with glyphs at 57343, at 62464 and inside the range
C9_Witness ==
    /\ result.op = "generate_metadata"
    /\ result.exc = "none"
    /\ \E glyph \in GlyphsOf(font) : glyph.unicode = 57343
    /\ \E glyph \in GlyphsOf(font) : glyph.unicode = 62464
    /\ \E glyph \in GlyphsOf(font) : InRange(glyph.unicode)
    /\ DOMAIN SubTable("glyphsWithAnchors") # {}

\* the recognised anchors of a glyph
ValidAnchors(glyph) ==
    {glyph.anchorPoints[i] : i \in {j \in DOMAIN glyph.anchorPoints :
                                      glyph.anchorPoints[j][1] \in valid_anchor_names}}

\* t thousandths of a space is em tenths of a unit over 250, rounded
IsRounded(t, em) == 10 * t - 4 * em \in -5 .. 5

RECURSIVE Flatten(_)
Flatten(tables) ==
    IF tables = <<>> THEN <<>>
    ELSE SubSeq(Head(tables), 3, Len(Head(tables))) \o Flatten(Tail(tables))

SubstituteNames(glyph) == Flatten(TablesOfType(glyph, "AltSubs"))

GlyphNamed(glyphname) == CHOOSE glyph \in GlyphsOf(font) : glyph.glyphname = glyphname

\* one {codepoint, name} record per substitute
ExpectedAlternates(glyph) ==
    LET names == SubstituteNames(glyph) IN
    [i \in 1 .. Len(names) |->
        [codepoint |-> format_codepoint(GlyphNamed(names[i]).unicode),
         name |-> ResolvedName(GlyphNamed(names[i]))]]

\* a document was asked for from an open font with the table loaded
DocumentAsked ==
    \/ result.op = "generate_metadata" /\ handle = "open" /\ codepoint_to_name.defined
    \/ result.op = "asdict"

\* the document, or the sub-table that method builds, was asked for
Asked(method) ==
    \/ DocumentAsked
    \/ result.op = method /\ handle = "open" /\ codepoint_to_name.defined

\* the sub-table under key of what was returned
Returned(key) ==
    IF result.op \in {"generate_metadata", "asdict"} THEN SubTable(key) ELSE result.val

SmuflRangeGlyphs == {glyph \in GlyphsOf(font) : InRange(glyph.unicode)}

\* every substitute an AltSubs table names is a glyph of the font
SubstitutesPresent ==
    \A glyph \in SmuflRangeGlyphs :
        \A i \in DOMAIN SubstituteNames(glyph) :
            \E other \in GlyphsOf(font) : other.glyphname = SubstituteNames(glyph)[i]

\* and every glyph in range is in the table
AlternatesResolvable ==
    /\ SubstitutesPresent
    /\ \A glyph \in SmuflRangeGlyphs :
          format_codepoint(glyph.unicode) \in DOMAIN codepoint_to_name.map

\* C11: a glyph in range with an alternate rule has, under its name in
\* glyphsWithAlternates, the list of {codepoint, name} records of its
\* substitutes in rule order, also for substitutes the table does not
\* name or that lie outside the range; a glyph without a rule has no entry.
C11_Alternates ==
    (Asked("alternates") /\ AlternatesResolvable) =>
        /\ result.exc = "none"
        /\ \A glyph \in SmuflRangeGlyphs :
              IF SubstituteNames(glyph) # <<>>
              THEN /\ ResolvedName(glyph) \in DOMAIN Returned("glyphsWithAlternates")
                   /\ Returned("glyphsWithAlternates")[ResolvedName(glyph)]
                        = PyList(ExpectedAlternates(glyph))
              ELSE ResolvedName(glyph) \notin DOMAIN Returned("glyphsWithAlternates")

\* C12: for every font, every glyph in range has a glyphBBoxes entry under
\* its resolved name with bBoxNE = (xmax, ymax) and bBoxSW = (xmin, ymin),
\* each extent over 250 rounded to 3 decimals, and there are as many
\* entries as glyphs in range.
C12_BoundingBoxes ==
    (\/ DocumentAsked /\ SubstitutesPresent
     \/ result.op = "bounding_boxes" /\ handle = "open" /\ codepoint_to_name.defined) =>
        /\ result.exc = "none"
        /\ \A glyph \in SmuflRangeGlyphs :
              /\ ResolvedName(glyph) \in DOMAIN Returned("glyphBBoxes")
              /\ LET entry == Returned("glyphBBoxes")[ResolvedName(glyph)]
                 IN  /\ IsRounded(entry.bBoxSW[1], glyph.boundingBox[1])
                     /\ IsRounded(entry.bBoxSW[2], glyph.boundingBox[2])
                     /\ IsRounded(entry.bBoxNE[1], glyph.boundingBox[3])
                     /\ IsRounded(entry.bBoxNE[2], glyph.boundingBox[4])
        /\ Cardinality(DOMAIN Returned("glyphBBoxes")) = Cardinality(SmuflRangeGlyphs)

\* a ligatures sub-table was returned, in a document or on its own
LigaturesReturned ==
    result.op \in {"generate_metadata", "asdict", "ligatures"} /\ result.exc = "none"

DocumentMade ==
    /\ result.op \in {"generate_metadata", "asdict", "export_metadata"}
    /\ result.exc = "none"

Document ==
    IF result.op = "export_metadata" THEN result.written[1].content ELSE result.val

OptionalKeys ==
    <<"engravingDefaults", "glyphsWithAnchors", "glyphsWithAlternates",
      "glyphBBoxes", "ligatures">>

Rank(key) == CHOOSE i \in DOMAIN OptionalKeys : OptionalKeys[i] = key

\* C14: every document made starts with fontName, then fontVersion, and
\* its remaining keys are optional sub-tables in the order engravingDefaults,
\* glyphsWithAnchors, glyphsWithAlternates, glyphBBoxes, ligatures.
C14_KeyOrder ==
    DocumentMade =>
        /\ Len(Document) >= 2
        /\ Document[1].key = "fontName"
        /\ Document[2].key = "fontVersion"
        /\ \A i \in 3 .. Len(Document) :
              \E r \in DOMAIN OptionalKeys : Document[i].key = OptionalKeys[r]
        /\ \A i, j \in 3 .. Len(Document) :
              i < j => Rank(Document[i].key) < Rank(Document[j].key)

\* a document that holds all five optional sub-tables
C14_Witness ==
    /\ DocumentMade
    /\ Len(Document) = 7

\* C15: export_font(path) has the font library generate the binary at
\* exactly that path; without a path, at the lower-cased font name
\* followed by '.otf'.
C15_ExportFont ==
    (result.op = "export_font" /\ handle = "open") =>
        result.forwarded =
            << Call("generate",
                    << IF result.args[1] # "" THEN result.args[1]
                       ELSE Join(Lower(font.fontname)) \o ".otf" >>) >>

GlyphNames(f) == [i \in DOMAIN f.glyphs |-> f.glyphs[i].glyphname]

GlyphCodepoints(f) == [i \in DOMAIN f.glyphs |-> f.glyphs[i].unicode]

\* a facade operation returned or wrote a document
FacadeDocument ==
    result.op \in {"generate_metadata", "export_metadata"} /\ result.exc = "none"

\* C16: no operation changes the glyphs of the font or their codepoints;
\* glyph names change in rename_glyphs only; generate_metadata,
\* export_metadata and export_font leave the glyph names, the stored
\* defaults and the read-only flag as they were; a document is determined
\* by the font and the stored defaults, so that two documents made with no
\* rename or defaults assignment in between are identical.
C16_Frame ==
    [][ /\ GlyphCodepoints(font') = GlyphCodepoints(font)
        /\ GlyphNames(font') # GlyphNames(font) => result'.op = "rename_glyphs"
        /\ result'.op \in {"generate_metadata", "export_metadata", "export_font"} =>
              /\ font' = font
              /\ engraving_defaults' = engraving_defaults
              /\ read_only' = read_only
        /\ FacadeDocument' => Document' = asdict(font, engraving_defaults).val
        /\ (FacadeDocument /\ FacadeDocument') => Document' = Document
      ]_vars

\* a document made from a font whose glyphs were renamed, defaults stored
C16_Witness ==
    /\ FacadeDocument
    /\ Truthy(engraving_defaults)
    /\ \E i \in DOMAIN font.glyphs : font.glyphs[i].glyphname = "noteheadBlack"

\* C17: the font handle is closed at most once, and no call is forwarded
\* to it once it is closed (fontforge answers such a call with
\* RuntimeError); close() in a with block followed by the end of the block
\* closes once.
C17_ClosedOnce ==
    /\ close_calls <= 1
    /\ result.forwarded # <<>> => result.exc # "RuntimeError"

====
